---- MODULE Spec2Model ----
(***************************************************************************)
(* site2skill: the path mapper (html_to_md_path), the path sanitizer       *)
(* (sanitize_path) and the pipeline of main() that composes them.          *)
(*                                                                         *)
(* A Python str is modelled as a sequence of one-character strings, so     *)
(* that suffix tests, slicing, splitting and the regular-expression        *)
(* substitution are computed character by character as the code does.      *)
(***************************************************************************)
EXTENDS Integers, Sequences, FiniteSets

VARIABLES
    arg,      \* the string handed to the path function under test
    phase,    \* which calls on arg have returned
    md,       \* what html_to_md_path returned
    san,      \* what sanitize_path returned
    san2,     \* what sanitize_path returned when called on its own result
    exc       \* the exception a call raised, "None" when it returned

path_vars == <<arg, phase, md, san, san2, exc>>

VARIABLES
    pc,           \* the statement of main() that runs next
    skip_fetch,   \* args.skip_fetch
    clean,        \* args.clean
    url,          \* args.url
    temp_exists,  \* whether args.temp_dir exists
    crawl,        \* the files under <temp_dir>/download/crawl, relative to it
    markdown,     \* the files under <temp_dir>/markdown: relative path -> content
    html_files,   \* the part of the glob's result the loop has yet to visit
    html_file,    \* the loop variable, as rel_path
    source_url,   \* the loop's source_url
    md_rel_path,  \* the loop's md_rel_path
    warnings,     \* what logger.warning and logger.error have been given
    skill_exists, \* whether <output>/<skill_name> exists
    skill_docs,   \* the files under <output>/<skill_name>/docs
    skill_md,     \* the content of <output>/<skill_name>/SKILL.md
    scripts,      \* the content of scripts/search_docs.py and scripts/README.md
    templates,    \* which of the packaged templates can be read
    valid,        \* what validate_skill returned
    packaged,     \* whether package_skill has returned
    exit_code,    \* the status the process ended with
    steps,        \* history: the pipeline steps begun, in order
    found,        \* history: the result of the glob
    md_before,    \* history: the markdown files there when the loop began
    processed     \* history: <<rel_path, md_rel_path>> of every conversion, in order

main_vars ==
    <<pc, skip_fetch, clean, url, temp_exists, crawl, markdown, html_files,
      html_file, source_url, md_rel_path, warnings, skill_exists, skill_docs,
      skill_md, scripts, templates, valid, packaged, exit_code, steps, found,
      md_before, processed>>

\* what the pipeline leaves alone of the skill directory outside Step 4
skill_vars == <<skill_exists, scripts, templates>>

vars == <<path_vars, main_vars>>

(***************************************************************************)
(* Bounds of the model.                                                    *)
(***************************************************************************)
\* Largest number of pieces an input string of the path functions is made of.
MaxPieces == 4
\* Largest number of pieces of the second path of a pair of mapper inputs.
MaxProbePieces == 4
\* Largest number of files a crawl directory holds.
MaxFiles == 3

(***************************************************************************)
(* String constants of the source.                                         *)
(***************************************************************************)
\* os.sep on a POSIX system
SEP == "/"
\* the suffix tested by endswith('.html')
HTML_EXT == <<".", "h", "t", "m", "l">>
\* the suffix put in its place
MD_EXT == <<".", "m", "d">>
\* the default sanitize_path returns when no part survives
FALLBACK == <<"f", "i", "l", "e", ".", "m", "d">>
\* the replacement character of re.sub
UNDERSCORE == "_"
\* the number of characters html_path[:-5] cuts off
HTML_EXT_LEN == 5
\* what a variable holds before the call that sets it has returned
NoResult == <<"None">>

Letters ==
    {"a", "b", "c", "d", "e", "f", "g", "h", "i", "j", "k", "l", "m",
     "n", "o", "p", "q", "r", "s", "t", "u", "v", "w", "x", "y", "z",
     "A", "B", "C", "D", "E", "F", "G", "H", "I", "J", "K", "L", "M",
     "N", "O", "P", "Q", "R", "S", "T", "U", "V", "W", "X", "Y", "Z"}
Digits == {"0", "1", "2", "3", "4", "5", "6", "7", "8", "9"}

\* A regex class without '.', as in [^a-zA-Z0-9_-].
IsSafeChar_NoDot(c) == c \in Letters \cup Digits \cup {"_", "-"}
\* The complement of the class of r'[^a-zA-Z0-9._-]'.
IsSafeChar(c) == c \in Letters \cup Digits \cup {".", "_", "-"}

(***************************************************************************)
(* Python string primitives.                                               *)
(***************************************************************************)
\* s.endswith(suffix)
endswith(s, suffix) ==
    /\ Len(s) >= Len(suffix)
    /\ SubSeq(s, Len(s) - Len(suffix) + 1, Len(s)) = suffix

\* s.startswith(prefix)
startswith(s, prefix) ==
    /\ Len(s) >= Len(prefix)
    /\ SubSeq(s, 1, Len(prefix)) = prefix

\* s.find(c) + 1 for a single character c: 0 when c does not occur
RECURSIVE find(_, _, _)
find(s, c, from) ==
    IF from > Len(s) THEN 0
    ELSE IF s[from] = c THEN from
    ELSE find(s, c, from + 1)

\* s.split(sep): every segment, the empty ones included; "".split(sep) = [""]
RECURSIVE split(_, _)
split(s, sep) ==
    LET i == find(s, sep, 1)
    IN  IF i = 0 THEN <<s>>
        ELSE <<SubSeq(s, 1, i - 1)>> \o split(SubSeq(s, i + 1, Len(s)), sep)

\* posixpath.join(a, b)
path_join2(a, b) ==
    IF startswith(b, <<SEP>>) THEN b
    ELSE IF a = <<>> \/ endswith(a, <<SEP>>) THEN a \o b
    ELSE a \o <<SEP>> \o b

\* os.path.join(*parts) for a non-empty list of parts
RECURSIVE path_join(_)
path_join(parts) ==
    IF Len(parts) = 1 THEN parts[1]
    ELSE path_join2(path_join(SubSeq(parts, 1, Len(parts) - 1)), parts[Len(parts)])

\* re.sub with an empty replacement: unsafe characters are deleted.
re_sub_Delete(part) ==
    SelectSeq(part, IsSafeChar)

\* re.sub(r'[^a-zA-Z0-9._-]', '_', part)
re_sub(part) ==
    [i \in 1..Len(part) |-> IF IsSafeChar(part[i]) THEN part[i] ELSE UNDERSCORE]

(***************************************************************************)
(* utils.sanitize_path                                                     *)
(***************************************************************************)
\* The loop without its "if part" test: empty parts are kept.
sanitize_parts_KeepEmpty(path_parts) ==
    [i \in 1..Len(path_parts) |-> re_sub(path_parts[i])]

\* the loop over path_parts: empty parts are skipped, the others substituted
RECURSIVE sanitize_parts(_)
sanitize_parts(path_parts) ==
    IF path_parts = <<>> THEN <<>>
    ELSE LET part == Head(path_parts)
             rest == sanitize_parts(Tail(path_parts))
         IN  IF part # <<>> THEN <<re_sub(part)>> \o rest ELSE rest

\* The substitution applied to the whole path: separators are replaced too.
sanitize_path_Whole(path) ==
    IF path = <<>> THEN FALLBACK ELSE re_sub(path)

sanitize_path(path) ==
    LET sanitized_parts == sanitize_parts(split(path, SEP))
    IN  IF sanitized_parts = <<>> THEN FALLBACK
        ELSE path_join(sanitized_parts)

(***************************************************************************)
(* utils.html_to_md_path                                                   *)
(***************************************************************************)
\* The flattening mapper of the prior defect: the directory part is dropped.
html_to_md_path_Flat(html_path) ==
    LET segs == split(html_path, SEP)
        name == segs[Len(segs)]
    IN  IF endswith(name, HTML_EXT)
        THEN SubSeq(name, 1, Len(name) - HTML_EXT_LEN) \o MD_EXT
        ELSE name \o MD_EXT

\* str.replace('.html', '.md'): every occurrence is replaced, wherever it is.
RECURSIVE html_to_md_path_Replace(_)
html_to_md_path_Replace(html_path) ==
    IF html_path = <<>> THEN <<>>
    ELSE IF startswith(html_path, HTML_EXT)
    THEN MD_EXT \o html_to_md_path_Replace(
             SubSeq(html_path, HTML_EXT_LEN + 1, Len(html_path)))
    ELSE <<Head(html_path)>> \o html_to_md_path_Replace(Tail(html_path))

\* A mapper that only replaces: a path without '.html' is returned as it is.
html_to_md_path_NoAppend(html_path) ==
    IF endswith(html_path, HTML_EXT)
    THEN SubSeq(html_path, 1, Len(html_path) - HTML_EXT_LEN) \o MD_EXT
    ELSE html_path

\* A mapper that hands an empty path back as it is.
html_to_md_path_EmptyGuard(html_path) ==
    IF html_path = <<>> THEN <<>>
    ELSE IF endswith(html_path, HTML_EXT)
    THEN SubSeq(html_path, 1, Len(html_path) - HTML_EXT_LEN) \o MD_EXT
    ELSE html_path \o MD_EXT

html_to_md_path(html_path) ==
    IF endswith(html_path, HTML_EXT)
    THEN SubSeq(html_path, 1, Len(html_path) - HTML_EXT_LEN) \o MD_EXT
    ELSE html_path \o MD_EXT

(***************************************************************************)
(* The inputs of the path functions: every concatenation of at most        *)
(* MaxPieces pieces. The pieces are a safe character, the separator, an    *)
(* unsafe character, the dot, and the two literals of the source.          *)
(***************************************************************************)
Pieces == {<<"a">>, <<SEP>>, <<"@">>, <<".">>, HTML_EXT, FALLBACK}
ProbePieces == {<<"a">>, <<SEP>>, HTML_EXT}

RECURSIVE Concats(_, _)
Concats(pieces, n) ==
    IF n = 0 THEN {<<>>}
    ELSE LET shorter == Concats(pieces, n - 1)
         IN  shorter \cup {s \o p : s \in shorter, p \in pieces}

Inputs == Concats(Pieces, MaxPieces)
Probes == Concats(ProbePieces, MaxProbePieces)

(***************************************************************************)
(* The calls on the path functions, in the orders the repository makes     *)
(* them: sanitize_path alone and on its own result (test_sanitize_path),   *)
(* html_to_md_path alone, and sanitize_path on the mapper's result (main). *)
(***************************************************************************)
\* main() is not running
MainIdle ==
    /\ pc = "idle"
    /\ skip_fetch = FALSE
    /\ clean = FALSE
    /\ url = <<>>
    /\ temp_exists = FALSE
    /\ crawl = {}
    /\ markdown = <<>>
    /\ html_files = {}
    /\ html_file = NoResult
    /\ source_url = NoResult
    /\ md_rel_path = NoResult
    /\ warnings = {}
    /\ skill_exists = FALSE
    /\ skill_docs = <<>>
    /\ skill_md = "absent"
    /\ scripts = [search_docs |-> "absent", readme |-> "absent"]
    /\ templates = "ok"
    /\ valid = FALSE
    /\ packaged = FALSE
    /\ exit_code = -1
    /\ steps = <<>>
    /\ found = {}
    /\ md_before = {}
    /\ processed = <<>>

PathInit ==
    /\ MainIdle
    /\ arg \in Inputs
    /\ phase = "input"
    /\ md = NoResult
    /\ san = NoResult
    /\ san2 = NoResult
    /\ exc = "None"

\* sanitize_path(arg): the function has no raise statement and no failing call
CallSanitize ==
    /\ phase = "input"
    /\ san' = sanitize_path(arg)
    /\ exc' = "None"
    /\ phase' = "sanitized"
    /\ UNCHANGED <<arg, md, san2, main_vars>>

\* sanitize_path(sanitize_path(arg))
CallSanitizeAgain ==
    /\ phase = "sanitized"
    /\ san2' = sanitize_path(san)
    /\ exc' = "None"
    /\ phase' = "resanitized"
    /\ UNCHANGED <<arg, md, san, main_vars>>

\* html_to_md_path(arg): both branches return
CallMap ==
    /\ phase = "input"
    /\ md' = html_to_md_path(arg)
    /\ exc' = "None"
    /\ phase' = "mapped"
    /\ UNCHANGED <<arg, san, san2, main_vars>>

\* md_rel_path = sanitize_path(md_rel_path), after md_rel_path = html_to_md_path(rel_path)
CallSanitizeMapped ==
    /\ phase = "mapped"
    /\ san' = sanitize_path(md)
    /\ exc' = "None"
    /\ phase' = "composed"
    /\ UNCHANGED <<arg, md, san2, main_vars>>

PathNext ==
    \/ CallSanitize
    \/ CallSanitizeAgain
    \/ CallMap
    \/ CallSanitizeMapped

SpecPath == PathInit /\ [][PathNext]_vars

(***************************************************************************)
(* main(): the pipeline. A file is named by its path relative to the       *)
(* directory it lies under, which is what os.path.relpath returns for a    *)
(* path the glob produced.                                                 *)
(***************************************************************************)
Str_https == <<"h", "t", "t", "p", "s">>
Str_scheme_sep == <<":", "/", "/">>
Str_dotdot == <<".", ".">>

\* the files a mirrored site may consist of
F_index == <<"d", "/", "i">> \o HTML_EXT
F_a_index == <<"d", "/", "a", "/", "i">> \o HTML_EXT
F_space == <<"d", "/", "a", " ", "b">> \o HTML_EXT
F_under == <<"d", "/", "a", "_", "b">> \o HTML_EXT
F_css == <<"d", "/", "s", ".", "c", "s", "s">>
F_hidden == <<"d", "/", ".", "h">> \o HTML_EXT
CrawlUniverse == {F_index, F_a_index, F_space, F_under, F_css, F_hidden}
CrawlTrees == {S \in SUBSET CrawlUniverse : Cardinality(S) <= MaxFiles}

\* the values of the url argument: with a scheme, with an upper-case scheme, without
URLS ==
    { <<"h", "t", "t", "p", ":", "/", "/", "d">>,
      <<"H", "T", "T", "P", "S", ":", "/", "/", "d">>,
      <<"d">> }

NoFiles == [d \in {} |-> d]

\* a scripts directory that holds neither search_docs.py nor README.md
NoScripts == [search_docs |-> "absent", readme |-> "absent"]

UPPER ==
    <<"A", "B", "C", "D", "E", "F", "G", "H", "I", "J", "K", "L", "M",
      "N", "O", "P", "Q", "R", "S", "T", "U", "V", "W", "X", "Y", "Z">>
LOWER ==
    <<"a", "b", "c", "d", "e", "f", "g", "h", "i", "j", "k", "l", "m",
      "n", "o", "p", "q", "r", "s", "t", "u", "v", "w", "x", "y", "z">>

\* str.lower() of one character
lower(c) ==
    IF \E i \in 1..Len(UPPER) : UPPER[i] = c
    THEN LOWER[CHOOSE i \in 1..Len(UPPER) : UPPER[i] = c]
    ELSE c

\* urlparse(u).scheme: the text before the first ':' in lower case when it
\* starts with a letter and is made of scheme characters, the empty string otherwise
url_scheme(u) ==
    LET i == find(u, ":", 1)
    IN  IF /\ i > 1
           /\ u[1] \in Letters
           /\ \A j \in 1..(i - 1) : u[j] \in Letters \cup Digits \cup {"+", "-", "."}
        THEN [j \in 1..(i - 1) |-> lower(u[j])]
        ELSE <<>>

\* scheme = parsed_input_url.scheme if parsed_input_url.scheme else "https"
scheme_of(u) == IF url_scheme(u) # <<>> THEN url_scheme(u) ELSE Str_https

\* A source URL that keeps the '.html' extension.
make_source_url_KeepExt(scheme, rel_path) ==
    scheme \o Str_scheme_sep \o rel_path

\* rel_path_for_url and source_url
make_source_url(scheme, rel_path) ==
    LET rel_path_for_url ==
            IF endswith(rel_path, HTML_EXT)
            THEN SubSeq(rel_path, 1, Len(rel_path) - HTML_EXT_LEN)
            ELSE rel_path
    IN  scheme \o Str_scheme_sep \o rel_path_for_url

\* glob.glob(os.path.join(root, "**/*" + ext), recursive=True) over the files
\* under root: '*' and '**' match no name that starts with a dot
glob_ext(files, ext) ==
    {f \in files :
        /\ endswith(f, ext)
        /\ \A i \in 1..Len(split(f, SEP)) : ~startswith(split(f, SEP)[i], <<".">>)}

\* os.path.commonpath([abspath(path), abspath(root)]) == abspath(root), for a
\* path given by its os.path.relpath to root: it leaves root exactly when
\* that begins with '..'
is_within_Inverted(rel_path) == split(rel_path, SEP)[1] = Str_dotdot
is_within(rel_path) == split(rel_path, SEP)[1] # Str_dotdot

\* what convert_html_to_md writes to md_path: the conversion of html_file
\* under a header with source_url and fetched_at
convert_html_to_md(file, src_url, fetched_at) ==
    [src |-> file, source_url |-> src_url, fetched_at |-> fetched_at,
     normalized |-> FALSE]

\* the markdown tree an earlier run over the same download left behind
previous_markdown(files, u) ==
    LET srcs == glob_ext(files, HTML_EXT)
        dest(f) == sanitize_path(html_to_md_path(f))
        dests == {dest(f) : f \in srcs}
    IN  [d \in dests |->
            LET f == CHOOSE g \in srcs : dest(g) = d
            IN  [convert_html_to_md(f, make_source_url(scheme_of(u), f), "previous")
                    EXCEPT !.normalized = TRUE]]

PathIdle ==
    /\ arg = <<>>
    /\ phase = "idle"
    /\ md = NoResult
    /\ san = NoResult
    /\ san2 = NoResult
    /\ exc = "None"

\* the arguments and the file system main() starts from
Init ==
    /\ PathIdle
    /\ pc = "setup"
    /\ skip_fetch \in BOOLEAN
    /\ clean \in BOOLEAN
    /\ url \in URLS
    /\ temp_exists \in BOOLEAN
    /\ crawl \in IF temp_exists THEN CrawlTrees ELSE {{}}
    /\ markdown \in IF temp_exists
                    THEN {NoFiles, previous_markdown(crawl, url)}
                    ELSE {NoFiles}
    /\ html_files = {}
    /\ html_file = NoResult
    /\ source_url = NoResult
    /\ md_rel_path = NoResult
    /\ warnings = {}
    /\ skill_exists = FALSE
    /\ skill_docs = NoFiles
    /\ skill_md = "absent"
    /\ scripts = NoScripts
    /\ templates = "ok"
    /\ valid = FALSE
    /\ packaged = FALSE
    /\ exit_code = -1
    /\ steps = <<>>
    /\ found = {}
    /\ md_before = {}
    /\ processed = <<>>

\* An existing temp_dir is removed whether or not --skip-fetch is given.
SetupReset_Always ==
    /\ pc = "setup"
    /\ IF temp_exists
       THEN /\ temp_exists' = FALSE
            /\ crawl' = {}
            /\ markdown' = NoFiles
       ELSE UNCHANGED <<temp_exists, crawl, markdown>>
    /\ steps' = Append(steps, "setup")
    /\ pc' = "mkdirs"
    /\ UNCHANGED <<skip_fetch, clean, url, html_files, html_file, source_url,
                   md_rel_path, warnings, skill_docs, skill_md, skill_vars, valid,
                   packaged, exit_code, found, md_before, processed, path_vars>>

\* 1. Setup Directories: without --skip-fetch an existing temp_dir is removed
SetupReset ==
    /\ pc = "setup"
    /\ IF ~skip_fetch /\ temp_exists
       THEN /\ temp_exists' = FALSE
            /\ crawl' = {}
            /\ markdown' = NoFiles
       ELSE UNCHANGED <<temp_exists, crawl, markdown>>
    /\ steps' = Append(steps, "setup")
    /\ pc' = "mkdirs"
    /\ UNCHANGED <<skip_fetch, clean, url, html_files, html_file, source_url,
                   md_rel_path, warnings, skill_docs, skill_md, skill_vars, valid,
                   packaged, exit_code, found, md_before, processed, path_vars>>

\* os.makedirs(temp_download_dir) without --skip-fetch, and
\* os.makedirs(temp_md_dir, exist_ok=True)
SetupDirs ==
    /\ pc = "mkdirs"
    /\ temp_exists' = TRUE
    /\ pc' = IF ~skip_fetch THEN "fetch" ELSE "glob"
    /\ UNCHANGED <<skip_fetch, clean, url, crawl, markdown, html_files, html_file,
                   source_url, md_rel_path, warnings, skill_docs, skill_md,
                   skill_vars, valid, packaged, exit_code, steps, found, md_before,
                   processed, path_vars>>

\* Step 1: fetch_site(args.url, temp_download_dir) fills the crawl directory
Fetch ==
    /\ pc = "fetch"
    /\ crawl' \in CrawlTrees
    /\ steps' = Append(steps, "fetch")
    /\ pc' = "glob"
    /\ UNCHANGED <<skip_fetch, clean, url, temp_exists, markdown, html_files,
                   html_file, source_url, md_rel_path, warnings, skill_docs,
                   skill_md, skill_vars, valid, packaged, exit_code, found, md_before,
                   processed, path_vars>>

\* Step 2: html_files = glob.glob(os.path.join(crawl_dir, "**/*.html"), recursive=True)
Glob ==
    /\ pc = "glob"
    /\ html_files' = glob_ext(crawl, HTML_EXT)
    /\ found' = glob_ext(crawl, HTML_EXT)
    /\ md_before' = DOMAIN markdown
    /\ steps' = Append(steps, "convert")
    /\ pc' = "loop"
    /\ UNCHANGED <<skip_fetch, clean, url, temp_exists, crawl, markdown, html_file,
                   source_url, md_rel_path, warnings, skill_docs, skill_md, skill_vars, valid,
                   packaged, exit_code, processed, path_vars>>

\* for html_file in html_files: the containment check, rel_path and source_url.
\* The glob's order is the file system's: any file not yet visited may be next.
LoopHead ==
    /\ pc = "loop"
    /\ html_files # {}
    /\ \E f \in html_files :
          /\ html_files' = html_files \ {f}
          /\ IF ~is_within(f)
             THEN /\ warnings' = warnings \cup {<<"traversal", f>>}
                  /\ pc' = "loop"
                  /\ UNCHANGED <<html_file, source_url>>
             ELSE /\ html_file' = f
                  /\ source_url' = make_source_url(scheme_of(url), f)
                  /\ pc' = "map"
                  /\ UNCHANGED warnings
    /\ UNCHANGED <<skip_fetch, clean, url, temp_exists, crawl, markdown,
                   md_rel_path, skill_docs, skill_md, skill_vars, valid, packaged, exit_code,
                   found, md_before, processed, steps, path_vars>>

\* md_rel_path = html_to_md_path(rel_path)
ConvMap ==
    /\ pc = "map"
    /\ md_rel_path' = html_to_md_path(html_file)
    /\ pc' = "sanitize"
    /\ UNCHANGED <<skip_fetch, clean, url, temp_exists, crawl, markdown, html_files,
                   html_file, source_url, warnings, skill_docs, skill_md, skill_vars, valid,
                   packaged, exit_code, found, md_before, processed, steps, path_vars>>

\* md_rel_path = sanitize_path(md_rel_path)
ConvSanitize ==
    /\ pc = "sanitize"
    /\ md_rel_path' = sanitize_path(md_rel_path)
    /\ pc' = "write"
    /\ UNCHANGED <<skip_fetch, clean, url, temp_exists, crawl, markdown, html_files,
                   html_file, source_url, warnings, skill_docs, skill_md, skill_vars, valid,
                   packaged, exit_code, found, md_before, processed, steps, path_vars>>

\* First write wins: an existing destination is reported and left as it is.
ConvWrite_SkipExisting ==
    /\ pc = "write"
    /\ IF md_rel_path \in DOMAIN markdown
       THEN /\ warnings' = warnings \cup {<<"collision", md_rel_path>>}
            /\ UNCHANGED markdown
       ELSE /\ markdown' =
                [d \in DOMAIN markdown \cup {md_rel_path} |->
                    IF d = md_rel_path
                    THEN convert_html_to_md(html_file, source_url, "now")
                    ELSE markdown[d]]
            /\ UNCHANGED warnings
    /\ processed' = Append(processed, <<html_file, md_rel_path>>)
    /\ pc' = "loop"
    /\ UNCHANGED <<skip_fetch, clean, url, temp_exists, crawl, html_files,
                   html_file, source_url, md_rel_path, skill_docs, skill_md, skill_vars, valid,
                   packaged, exit_code, found, md_before, steps, path_vars>>

\* the os.path.exists(md_path) warning, then convert_html_to_md(html_file, md_path, ...)
ConvWrite ==
    /\ pc = "write"
    /\ warnings' = IF md_rel_path \in DOMAIN markdown
                   THEN warnings \cup {<<"collision", md_rel_path>>}
                   ELSE warnings
    /\ markdown' =
           [d \in DOMAIN markdown \cup {md_rel_path} |->
               IF d = md_rel_path
               THEN convert_html_to_md(html_file, source_url, "now")
               ELSE markdown[d]]
    /\ processed' = Append(processed, <<html_file, md_rel_path>>)
    /\ pc' = "loop"
    /\ UNCHANGED <<skip_fetch, clean, url, temp_exists, crawl, html_files,
                   html_file, source_url, md_rel_path, skill_docs, skill_md, skill_vars, valid,
                   packaged, exit_code, found, md_before, steps, path_vars>>

\* the loop is exhausted
LoopExit ==
    /\ pc = "loop"
    /\ html_files = {}
    /\ pc' = "normalize"
    /\ UNCHANGED <<skip_fetch, clean, url, temp_exists, crawl, markdown, html_files,
                   html_file, source_url, md_rel_path, warnings, skill_docs,
                   skill_md, skill_vars, valid, packaged, exit_code, found, md_before,
                   processed, steps, path_vars>>

\* Step 3: normalize_markdown(md_file, md_file) for every file of the '**/*.md' glob
Normalize ==
    /\ pc = "normalize"
    /\ markdown' =
           [d \in DOMAIN markdown |->
               IF d \in glob_ext(DOMAIN markdown, MD_EXT)
               THEN [markdown[d] EXCEPT !.normalized = TRUE]
               ELSE markdown[d]]
    /\ steps' = Append(steps, "normalize")
    /\ pc' = "generate"
    /\ UNCHANGED <<skip_fetch, clean, url, temp_exists, crawl, html_files,
                   html_file, source_url, md_rel_path, warnings, skill_docs,
                   skill_md, skill_vars, valid, packaged, exit_code, found, md_before,
                   processed, path_vars>>

\* the files of os.walk(source_dir) that pass file.endswith(".md"), each as
\* its os.path.relpath to source_dir
md_files(source) == {r \in DOMAIN source : endswith(r, MD_EXT)}

\* Every file is copied straight into docs_dir under its own name.
dst_rel_path_Flat(rel_path) == split(rel_path, SEP)[Len(split(rel_path, SEP))]
\* dst_path = os.path.join(docs_dir, rel_path), relative to docs_dir
dst_rel_path(rel_path) == rel_path

\* os.path.commonpath([abs_dst_path, abs_docs_dir]) == abs_docs_dir, for a
\* dst_path given relative to docs_dir
dst_is_within(dst) == split(dst, SEP)[1] # Str_dotdot

\* the copy loop: shutil.copy2(src_path, dst_path) of every '.md' file whose
\* destination is inside docs_dir; what else docs_dir holds stays
copy_docs(docs, source) ==
    LET copied == {r \in md_files(source) : dst_is_within(dst_rel_path(r))}
        dsts == {dst_rel_path(r) : r \in copied}
    IN  [d \in DOMAIN docs \cup dsts |->
            IF d \in dsts
            THEN source[CHOOSE r \in copied : dst_rel_path(r) = d]
            ELSE docs[d]]

\* the try block that installs the two templates: open(dest, "w") empties
\* the destination before read_text() of a missing template raises, and
\* the except clause ends the block at the first failure
install_templates(scr, tpl) ==
    CASE tpl = "ok" -> [search_docs |-> "template", readme |-> "template"]
      [] tpl = "no_package" -> scr
      [] tpl = "no_search" -> [scr EXCEPT !.search_docs = "empty"]
      [] tpl = "no_readme" -> [search_docs |-> "template", readme |-> "empty"]

\* what generate_skill_structure gives to logger.warning
generate_warnings ==
    (IF skill_exists THEN {<<"skill_exists", <<>> >>} ELSE {})
    \cup (IF templates # "ok" THEN {<<"templates", <<>> >>} ELSE {})
    \cup (IF temp_exists
          THEN {<<"traversal_copy", r>> :
                    r \in {q \in md_files(markdown) : ~dst_is_within(dst_rel_path(q))}}
          ELSE {<<"no_source", <<>> >>})

\* SKILL.md is written on every call.
generate_skill_structure_Overwrite ==
    /\ skill_exists' = TRUE
    /\ skill_md' = "generated"
    /\ scripts' = install_templates(scripts, templates)
    /\ skill_docs' = IF temp_exists THEN copy_docs(skill_docs, markdown)
                     ELSE skill_docs
    /\ warnings' = warnings \cup generate_warnings
    /\ UNCHANGED <<templates, temp_exists, markdown>>

\* generate_skill_structure(skill_name, source_dir, output_base) with the
\* markdown directory as source_dir
generate_skill_structure ==
    /\ skill_exists' = TRUE
    /\ skill_md' = IF skill_md = "absent" THEN "generated" ELSE skill_md
    /\ scripts' = install_templates(scripts, templates)
    /\ skill_docs' = IF temp_exists THEN copy_docs(skill_docs, markdown)
                     ELSE skill_docs
    /\ warnings' = warnings \cup generate_warnings
    /\ UNCHANGED <<templates, temp_exists, markdown>>

\* Step 4: generate_skill_structure(args.skill_name, temp_md_dir, args.output)
Generate ==
    /\ pc = "generate"
    /\ generate_skill_structure
    /\ steps' = Append(steps, "generate")
    /\ pc' = "validate"
    /\ UNCHANGED <<skip_fetch, clean, url, crawl, html_files, html_file,
                   source_url, md_rel_path, valid, packaged, exit_code, found,
                   md_before, processed, path_vars>>

\* A failed validation ends the run.
Validate_ExitOnFail ==
    /\ pc = "validate"
    /\ \E ok \in BOOLEAN :
          /\ valid' = ok
          /\ warnings' = IF ok THEN warnings
                         ELSE warnings \cup {<<"validation", <<>> >>}
          /\ pc' = IF ok THEN "package" ELSE "failed"
          /\ exit_code' = IF ok THEN exit_code ELSE 1
    /\ steps' = Append(steps, "validate")
    /\ UNCHANGED <<skip_fetch, clean, url, temp_exists, crawl, markdown, html_files,
                   html_file, source_url, md_rel_path, skill_docs, skill_md, skill_vars,
                   packaged, found, md_before, processed, path_vars>>

\* Step 5: validate_skill(skill_dir); a failed validation is logged and the run goes on
Validate ==
    /\ pc = "validate"
    /\ \E ok \in BOOLEAN :
          /\ valid' = ok
          /\ warnings' = IF ok THEN warnings
                         ELSE warnings \cup {<<"validation", <<>> >>}
    /\ steps' = Append(steps, "validate")
    /\ pc' = "package"
    /\ UNCHANGED <<skip_fetch, clean, url, temp_exists, crawl, markdown, html_files,
                   html_file, source_url, md_rel_path, skill_docs, skill_md, skill_vars,
                   packaged, exit_code, found, md_before, processed, path_vars>>

\* Step 6: package_skill(skill_dir, args.skill_output)
Package ==
    /\ pc = "package"
    /\ packaged' = TRUE
    /\ steps' = Append(steps, "package")
    /\ pc' = "cleanup"
    /\ UNCHANGED <<skip_fetch, clean, url, temp_exists, crawl, markdown, html_files,
                   html_file, source_url, md_rel_path, warnings, skill_docs,
                   skill_md, skill_vars, valid, exit_code, found, md_before, processed, path_vars>>

\* temp_dir is removed whether or not --clean is given.
Cleanup_Always ==
    /\ pc = "cleanup"
    /\ temp_exists' = FALSE
    /\ crawl' = {}
    /\ markdown' = NoFiles
    /\ steps' = Append(steps, "cleanup")
    /\ exit_code' = 0
    /\ pc' = "done"
    /\ UNCHANGED <<skip_fetch, clean, url, html_files, html_file, source_url,
                   md_rel_path, warnings, skill_docs, skill_md, skill_vars, valid,
                   packaged, found, md_before, processed, path_vars>>

\* Cleanup: shutil.rmtree(args.temp_dir) if args.clean; main() returns
Cleanup ==
    /\ pc = "cleanup"
    /\ IF clean
       THEN /\ temp_exists' = FALSE
            /\ crawl' = {}
            /\ markdown' = NoFiles
            /\ steps' = Append(steps, "cleanup")
       ELSE UNCHANGED <<temp_exists, crawl, markdown, steps>>
    /\ exit_code' = 0
    /\ pc' = "done"
    /\ UNCHANGED <<skip_fetch, clean, url, html_files, html_file, source_url,
                   md_rel_path, warnings, skill_docs, skill_md, skill_vars, valid,
                   packaged, found, md_before, processed, path_vars>>

\* the statements of the try block that call into the file system or a
\* collaborator, and so can raise
raising ==
    {"mkdirs", "fetch", "write", "normalize", "generate", "validate", "package"}
    \cup (IF ~skip_fetch /\ temp_exists THEN {"setup"} ELSE {})
    \cup (IF clean THEN {"cleanup"} ELSE {})

\* the step a statement of the try block begins, <<>> when the statement is
\* inside a step that has begun
step_begun(at) ==
    IF at \in {"mkdirs", "write"} THEN <<>> ELSE <<at>>

\* A conversion that raises is logged and the loop goes on.
Except_Swallow ==
    /\ pc \in raising
    /\ warnings' = warnings \cup {<<"error", <<>> >>}
    /\ steps' = steps \o step_begun(pc)
    /\ exit_code' = IF pc = "write" THEN exit_code ELSE 1
    /\ pc' = IF pc = "write" THEN "loop" ELSE "failed"
    /\ UNCHANGED <<skip_fetch, clean, url, temp_exists, crawl, markdown, html_files,
                   html_file, source_url, md_rel_path, skill_docs, skill_md,
                   skill_vars, valid, packaged, found, md_before, processed,
                   path_vars>>

\* except Exception: the statement raises; the error is logged and the
\* process exits with 1
Except ==
    /\ pc \in raising
    /\ warnings' = warnings \cup {<<"error", <<>> >>}
    /\ steps' = steps \o step_begun(pc)
    /\ exit_code' = 1
    /\ pc' = "failed"
    /\ UNCHANGED <<skip_fetch, clean, url, temp_exists, crawl, markdown, html_files,
                   html_file, source_url, md_rel_path, skill_docs, skill_md,
                   skill_vars, valid, packaged, found, md_before, processed,
                   path_vars>>

Next ==
    \/ SetupReset
    \/ SetupDirs
    \/ Fetch
    \/ Glob
    \/ LoopHead
    \/ ConvMap
    \/ ConvSanitize
    \/ ConvWrite
    \/ LoopExit
    \/ Normalize
    \/ Generate
    \/ Validate
    \/ Package
    \/ Cleanup
    \/ Except

Spec == Init /\ [][Next]_vars

(***************************************************************************)
(* generate_skill_structure called on its own, as the tests and the        *)
(* module's command line call it, once and then once more with the same    *)
(* arguments.  source_dir is modelled by temp_exists and markdown.         *)
(***************************************************************************)
S_root == <<"r", "o", "o", "t", ".", "m", "d">>
S_nested == <<"s", "u", "b", "/", "n", "e", "s", "t", "e", "d", ".", "m", "d">>
\* a file of the source tree that is no Markdown file
S_txt == <<"s", "u", "b", "/", "n", ".", "t", "x", "t">>
\* a Markdown file whose name begins with a dot
S_hidden == <<"s", "u", "b", "/", ".", "h", ".", "m", "d">>
\* a file only the skill directory holds
S_old == <<"o", "l", "d", ".", "m", "d">>

SourceUniverse == {S_root, S_nested, S_txt, S_hidden}

\* the text of the source file at rel_path: it tells the files apart
file_text(rel_path) == <<"text of">> \o rel_path

\* the text of a file the skill directory held before the call
STALE == <<"stale">>

SourceTrees == {[r \in S |-> file_text(r)] : S \in SUBSET SourceUniverse}

\* scripts an earlier version of the package installed
OldScripts == [search_docs |-> "old", readme |-> "old"]

TemplateStates == {"ok", "no_package", "no_search", "no_readme"}

GenIdle ==
    /\ skip_fetch = FALSE
    /\ clean = FALSE
    /\ url = <<>>
    /\ crawl = {}
    /\ html_files = {}
    /\ html_file = NoResult
    /\ source_url = NoResult
    /\ md_rel_path = NoResult
    /\ warnings = {}
    /\ valid = FALSE
    /\ packaged = FALSE
    /\ exit_code = -1
    /\ steps = <<>>
    /\ found = {}
    /\ md_before = {}
    /\ processed = <<>>

\* the source directory and the skill directory the first call finds
GenInit ==
    /\ PathIdle
    /\ GenIdle
    /\ pc = "call"
    /\ temp_exists \in BOOLEAN
    /\ markdown \in IF temp_exists THEN SourceTrees ELSE {NoFiles}
    /\ templates \in TemplateStates
    /\ skill_exists \in BOOLEAN
    /\ skill_md \in IF skill_exists THEN {"absent", "custom"} ELSE {"absent"}
    /\ scripts \in IF skill_exists THEN {NoScripts, OldScripts} ELSE {NoScripts}
    /\ skill_docs \in IF skill_exists
                      THEN {NoFiles, [d \in {S_root} |-> STALE],
                            [d \in {S_old} |-> STALE]}
                      ELSE {NoFiles}

\* generate_skill_structure(skill_name, source_dir, output_base)
GenCall ==
    /\ pc = "call"
    /\ generate_skill_structure
    /\ pc' = "again"
    /\ UNCHANGED <<skip_fetch, clean, url, crawl, html_files, html_file,
                   source_url, md_rel_path, valid, packaged, exit_code, steps,
                   found, md_before, processed, path_vars>>

\* the same call once more
GenCallAgain ==
    /\ pc = "again"
    /\ generate_skill_structure
    /\ pc' = "returned"
    /\ UNCHANGED <<skip_fetch, clean, url, crawl, html_files, html_file,
                   source_url, md_rel_path, valid, packaged, exit_code, steps,
                   found, md_before, processed, path_vars>>

GenNext ==
    \/ GenCall
    \/ GenCallAgain

SpecGen == GenInit /\ [][GenNext]_vars

(***************************************************************************)
(* Vocabulary of the properties, defined on the characters of a path and   *)
(* not through the functions under test.                                   *)
(***************************************************************************)
\* the character class [A-Za-z0-9._-] of a sanitized segment
SafeClass == Letters \cup Digits \cup {".", "_", "-"}

\* the position of the last separator of p, 0 when it has none
LastSep(p) ==
    LET at == {i \in 1..Len(p) : p[i] = SEP}
    IN  IF at = {} THEN 0 ELSE CHOOSE i \in at : \A j \in at : j <= i

\* everything before the final segment, its separator included
DirPart(p) == SubSeq(p, 1, LastSep(p))
\* the final segment
FinalSegment(p) == SubSeq(p, LastSep(p) + 1, Len(p))

\* the non-empty segments of p, in order
NonEmptySegments(p) == SelectSeq(split(p, SEP), LAMBDA seg : seg # <<>>)

\* p is a non-empty relative path of non-empty segments of safe characters
WellFormed(p) ==
    /\ p # <<>>
    /\ p[1] # SEP
    /\ p[Len(p)] # SEP
    /\ \A i \in 1..Len(p) : p[i] = SEP \/ p[i] \in SafeClass
    /\ \A i \in 1..(Len(p) - 1) : ~(p[i] = SEP /\ p[i + 1] = SEP)

Mapped == phase \in {"mapped", "composed"}
Sanitized == phase \in {"sanitized", "resanitized"}

(***************************************************************************)
(* C1: the mapper keeps the directory part of its input unchanged and      *)
(* alters only the suffix of the final segment, so that two distinct       *)
(* non-empty paths whose directory parts differ are mapped to distinct     *)
(* output paths.                                                           *)
(***************************************************************************)
C1_DirectoryPreserved ==
    (Mapped /\ arg # <<>>) =>
        /\ DirPart(md) = DirPart(arg)
        /\ \E n \in 0..Len(FinalSegment(arg)) :
               FinalSegment(md) = SubSeq(FinalSegment(arg), 1, n) \o MD_EXT
        /\ \A q \in Probes :
               (q # <<>> /\ q # arg /\ DirPart(q) # DirPart(arg))
                   => html_to_md_path(q) # md

\* two index pages of different directories have been mapped apart
C1_Witness ==
    /\ phase = "mapped"
    /\ arg = <<"a", "/", "a">> \o HTML_EXT
    /\ md = <<"a", "/", "a">> \o MD_EXT
    /\ (<<"a">> \o HTML_EXT) \in Probes
    /\ html_to_md_path(<<"a">> \o HTML_EXT) = <<"a">> \o MD_EXT

(***************************************************************************)
(* C3: sanitize_path returns, for every input string, without error a      *)
(* non-empty relative path whose segments are all non-empty and made of    *)
(* the characters [A-Za-z0-9._-]: no leading separator, no empty segment.  *)
(***************************************************************************)
C3_SanitizedWellFormed ==
    /\ phase \in {"sanitized", "resanitized", "composed"} =>
           (exc = "None" /\ WellFormed(san))
    /\ phase = "resanitized" => WellFormed(san2)

\* an absolute path with a doubled separator and an unsafe character
C3_Witness ==
    /\ phase = "sanitized"
    /\ arg = <<"/", "/", "@", "/">>
    /\ san = <<"_">>

(***************************************************************************)
(* C4: sanitize_path is idempotent, the empty input and the fallback       *)
(* included, and returns an already sanitized path unchanged.              *)
(***************************************************************************)
C4_Idempotent ==
    /\ phase = "resanitized" => san2 = san
    /\ (Sanitized /\ WellFormed(arg)) => san = arg

\* the empty input: the fallback is sanitized to itself
C4_Witness ==
    /\ phase = "resanitized"
    /\ arg = <<>>
    /\ san = FALLBACK
    /\ san2 = FALLBACK

\* an input with unsafe characters and a dot, sanitized twice
C4_WitnessUnsafe ==
    /\ phase = "resanitized"
    /\ arg = <<"@", ".", "/", "a">>
    /\ san = <<"_", ".", "/", "a">>

(***************************************************************************)
(* C5: the segments of the output of sanitize_path are the non-empty       *)
(* segments of its input, in order and of the same lengths, every safe     *)
(* character kept and every other character replaced by one '_'.           *)
(***************************************************************************)
SameStructure(inp, out) ==
    LET segs == NonEmptySegments(inp)
        outs == split(out, SEP)
    IN  segs # <<>> =>
            /\ Len(outs) = Len(segs)
            /\ \A i \in 1..Len(segs) :
                   /\ Len(outs[i]) = Len(segs[i])
                   /\ \A j \in 1..Len(segs[i]) :
                          outs[i][j] = IF segs[i][j] \in SafeClass
                                       THEN segs[i][j] ELSE UNDERSCORE

\* C5 as stated: the result is the fallback if and only if the input has
\* no non-empty segment.
C5_FallbackIffNoSegment ==
    Sanitized =>
        /\ SameStructure(arg, san)
        /\ (san = FALLBACK) <=> (NonEmptySegments(arg) = <<>>)

\* C5 as amended: the input has no non-empty segment exactly when the
\* fallback branch is taken; the result is 'file.md' then, and otherwise
\* only when 'file.md' is the one non-empty segment of the input.
C5_OutputStructure ==
    Sanitized =>
        /\ SameStructure(arg, san)
        /\ NonEmptySegments(arg) = <<>> => san = FALLBACK
        /\ san = FALLBACK => NonEmptySegments(arg) \in {<<>>, <<FALLBACK>>}

\* leading, doubled and trailing separators around two segments
C5_Witness ==
    /\ phase = "sanitized"
    /\ arg = <<"/", "@", "/", "a">>
    /\ san = <<"_", "/", "a">>

(***************************************************************************)
(* C6: if the final segment of a non-empty path ends with '.html' the      *)
(* mapper replaces exactly that trailing suffix by '.md'; otherwise it     *)
(* appends '.md' to the final segment.                                     *)
(***************************************************************************)
C6_ExtensionRule ==
    (Mapped /\ arg # <<>>) =>
        LET name == FinalSegment(arg)
        IN  IF Len(name) >= HTML_EXT_LEN
               /\ SubSeq(name, Len(name) - HTML_EXT_LEN + 1, Len(name)) = HTML_EXT
            THEN md = DirPart(arg)
                      \o SubSeq(name, 1, Len(name) - HTML_EXT_LEN) \o MD_EXT
            ELSE md = DirPart(arg) \o name \o MD_EXT

\* only one trailing '.html' is replaced
C6_Witness ==
    /\ phase = "mapped"
    /\ arg = <<"a">> \o HTML_EXT \o HTML_EXT
    /\ md = <<"a">> \o HTML_EXT \o MD_EXT

C9_MdSuffixSurvives ==
    phase = "composed" => endswith(san, MD_EXT)

\* a path with unsafe characters and no '.html' suffix has been composed
C9_Witness ==
    /\ phase = "composed"
    /\ arg = <<"@", "/", "a", "@">>
    /\ san = <<"_", "/", "a", "_">> \o MD_EXT

(***************************************************************************)
(* Vocabulary of the properties of the conversion loop.                    *)
(***************************************************************************)
\* p with every character outside the safe class and the separator made '_'
Underscored(p) ==
    [i \in 1..Len(p) |->
        IF p[i] = SEP \/ p[i] \in SafeClass THEN p[i] ELSE UNDERSCORE]

\* no two files of S become the same path when their unsafe characters are replaced
NoClash(S) ==
    \A f \in S : \A g \in S : f # g => Underscored(f) # Underscored(g)

\* the conversions made so far
Conversions == 1..Len(processed)
SourceOf(i) == processed[i][1]
DestOf(i) == processed[i][2]
Destinations == {DestOf(i) : i \in Conversions}

\* the loop has visited every file of the glob and main() went on
LoopDone ==
    pc \in {"normalize", "generate", "validate", "package", "cleanup", "done"}

CollisionLogged == \E w \in warnings : w[1] = "collision"

(***************************************************************************)
(* C2 as stated: distinct crawled .html paths are always given distinct    *)
(* destinations, so the loop produces as many Markdown files as the glob   *)
(* found HTML files.                                                       *)
(***************************************************************************)
C2_ZeroCollisions ==
    /\ \A i \in Conversions : \A j \in Conversions :
           i # j => DestOf(i) # DestOf(j)
    /\ LoopDone => Cardinality(Destinations) = Cardinality(found)

\* C2 as amended: two distinct crawled .html paths are given the same
\* destination exactly when they are equal once every unsafe character is
\* replaced by '_'. When no two files of the glob are, the loop produces as
\* many Markdown files as HTML files were found, and if the markdown
\* directory was empty when the loop began (as it is without --skip-fetch)
\* the 'Name collision' branch is never taken.
C2_CollisionsOnlyBySanitizing ==
    /\ \A i \in Conversions : \A j \in Conversions :
           i # j =>
               /\ SourceOf(i) # SourceOf(j)
               /\ (DestOf(i) = DestOf(j))
                      <=> (Underscored(SourceOf(i)) = Underscored(SourceOf(j)))
    /\ (LoopDone /\ NoClash(found)) =>
           /\ Cardinality(Destinations) = Cardinality(found)
           /\ md_before = {} => ~CollisionLogged
    /\ (LoopDone /\ ~skip_fetch) => md_before = {}

\* three pages, two of them index pages of different directories, have been
\* converted to three files without a collision
C2_Witness ==
    /\ pc = "normalize"
    /\ found = {F_index, F_a_index, F_under}
    /\ Cardinality(Destinations) = 3
    /\ md_before = {}
    /\ ~CollisionLogged

(***************************************************************************)
(* C7: the source URL of every converted file is the scheme of the url     *)
(* argument ('https' when it has none), '://' and the file's relative path *)
(* with its trailing '.html' stripped, every segment unchanged.            *)
(***************************************************************************)
\* the scheme written before '://' in u, in lower case; 'https' without one
ExpectedScheme(u) ==
    LET at == {i \in 2..(Len(u) - 2) : SubSeq(u, i, i + 2) = Str_scheme_sep}
    IN  IF at = {} THEN Str_https
        ELSE LET i == CHOOSE k \in at : \A j \in at : k <= j
             IN  [j \in 1..(i - 1) |-> lower(u[j])]

\* s is the URL of the crawled '.html' file p
IsUrlOf(s, p) == s \o HTML_EXT = ExpectedScheme(url) \o Str_scheme_sep \o p

C7_UrlRule ==
    /\ pc \in {"map", "sanitize", "write"} => IsUrlOf(source_url, html_file)
    /\ \A d \in DOMAIN markdown :
           markdown[d].fetched_at = "now"
               => IsUrlOf(markdown[d].source_url, markdown[d].src)

\* a page of a subdirectory, converted in a run whose url has no scheme
C7_Witness ==
    /\ url = <<"d">>
    /\ \E d \in DOMAIN markdown :
           /\ markdown[d].fetched_at = "now"
           /\ markdown[d].src = F_a_index
           /\ markdown[d].source_url =
                  Str_https \o Str_scheme_sep \o <<"d", "/", "a", "/", "i">>

(***************************************************************************)
(* C10: in every iteration of the loop the mapper runs, then the           *)
(* sanitizer, then the write; a destination that exists already is         *)
(* reported and overwritten, never skipped; so each destination holds the  *)
(* conversion of the last file processed that maps to it.                  *)
(***************************************************************************)
\* the last conversion that wrote destination d
LastTo(d) ==
    CHOOSE i \in Conversions :
        /\ DestOf(i) = d
        /\ \A j \in Conversions : DestOf(j) = d => j <= i

C10_State ==
    \* the sanitizer is given what the mapper made of the raw path
    /\ pc = "sanitize" =>
           /\ endswith(md_rel_path, MD_EXT)
           /\ SubSeq(md_rel_path, 1, Len(md_rel_path) - Len(MD_EXT)) \o HTML_EXT
                  = html_file
    /\ pc = "write" =>
           /\ endswith(md_rel_path, MD_EXT)
           /\ SubSeq(md_rel_path, 1, Len(md_rel_path) - Len(MD_EXT)) \o HTML_EXT
                  = Underscored(html_file)
    \* last write wins, as long as the markdown directory is there
    /\ (pc # "done" \/ ~clean) =>
           \A d \in Destinations :
               /\ d \in DOMAIN markdown
               /\ markdown[d].src = SourceOf(LastTo(d))
               /\ markdown[d].fetched_at = "now"

C10_Step ==
    /\ (pc' = "sanitize" /\ pc # "sanitize") => pc = "map"
    /\ (pc' = "write" /\ pc # "write") => pc = "sanitize"
    /\ (pc = "write" /\ pc' = "loop") =>
           /\ md_rel_path \in DOMAIN markdown'
           /\ markdown'[md_rel_path].src = html_file
           /\ processed' = Append(processed, <<html_file, md_rel_path>>)
           /\ md_rel_path \in DOMAIN markdown
                  => <<"collision", md_rel_path>> \in warnings'

C10_LastWriteWins == [](C10_State) /\ [][C10_Step]_vars

\* two files went to one destination: the second was reported and written
C10_Witness ==
    /\ pc = "normalize"
    /\ Len(processed) = 2
    /\ DestOf(1) = DestOf(2)
    /\ <<"collision", DestOf(2)>> \in warnings
    /\ markdown[DestOf(2)].src = SourceOf(2)

(***************************************************************************)
(* Path containment.                                                       *)
(***************************************************************************)
\* the depth below the starting directory at which a walk along segs from
\* depth ends, -1 once the walk has left the starting directory
RECURSIVE Walk(_, _)
Walk(segs, depth) ==
    IF depth < 0 THEN -1
    ELSE IF segs = <<>> THEN depth
    ELSE LET seg == Head(segs)
         IN  CASE seg = <<".", ".">> -> Walk(Tail(segs), depth - 1)
               [] seg = <<".">> \/ seg = <<>> -> Walk(Tail(segs), depth)
               [] OTHER -> Walk(Tail(segs), depth + 1)

\* the relative path p names a file below the directory it is relative to
Inside(p) ==
    /\ p # <<>>
    /\ p[1] # SEP
    /\ Walk(split(p, SEP), 0) >= 1

\* the file f of the glob was converted
Converted(f) == \E i \in Conversions : SourceOf(i) = f

\* generate_skill_structure has returned to main()
Generated == pc \in {"validate", "package", "cleanup"}

\* C11: an HTML file is converted only if it lies inside the crawl root, every
\* destination the loop writes lies inside the markdown directory and every
\* file generate_skill_structure copies lands inside docs; only a file that
\* fails a containment check is skipped, with a warning, and all the other
\* files of the glob and of the markdown directory are still processed.
C11_Containment ==
    /\ pc \in {"map", "sanitize", "write"} => Inside(html_file)
    /\ \A i \in Conversions : Inside(SourceOf(i)) /\ Inside(DestOf(i))
    /\ \A d \in DOMAIN skill_docs : Inside(d)
    /\ \A w \in warnings :
          w[1] \in {"traversal", "traversal_copy"} => ~Inside(w[2])
    /\ LoopDone =>
          \A f \in found : Converted(f) \/ <<"traversal", f>> \in warnings
    /\ Generated =>
          \A r \in md_files(markdown) :
              r \in DOMAIN skill_docs \/ <<"traversal_copy", r>> \in warnings

\* three files were converted to destinations in nested directories and
\* copied into docs
C11_Witness ==
    /\ pc = "validate"
    /\ Len(processed) = MaxFiles
    /\ Cardinality(DOMAIN skill_docs) >= 2
    /\ \E d \in DOMAIN skill_docs : Len(split(d, SEP)) >= 3

(***************************************************************************)
(* The order of the pipeline.                                              *)
(***************************************************************************)
\* the steps of main() in the order of its text
PipelineOrder ==
    <<"setup", "fetch", "convert", "normalize", "generate", "validate", "package",
      "cleanup">>

\* the place of a step in PipelineOrder
Rank(step) == CHOOSE i \in 1..Len(PipelineOrder) : PipelineOrder[i] = step

Begun(step) == \E i \in 1..Len(steps) : steps[i] = step

ErrorLogged == <<"error", <<>> >> \in warnings

C12_State ==
    /\ \A i, j \in 1..Len(steps) : i < j => Rank(steps[i]) < Rank(steps[j])
    /\ Begun("fetch") => ~skip_fetch
    /\ Begun("convert") => (Begun("fetch") <=> ~skip_fetch)
    /\ Begun("normalize") =>
          /\ Begun("convert")
          /\ html_files = {}
          /\ pc \notin {"map", "sanitize", "write"}
          /\ \A f \in found : Converted(f)
    /\ Begun("generate") => Begun("normalize")
    /\ Begun("validate") => Begun("generate")
    /\ Begun("package") => Begun("validate")
    /\ pc = "done" => Begun("package") /\ packaged

C12_Step ==
    /\ pc = "validate" /\ ~ErrorLogged' => pc' = "package"
    /\ pc = "package" /\ ~ErrorLogged' => packaged' /\ Begun("package")'

\* C12: the steps run in the order fetch (unless skipped), convert, normalize,
\* generate, validate, package, each at most once and none before the one
\* ahead of it; normalization begins only when every HTML file of the glob
\* has been converted; a validation that returns, with either result, is
\* followed by packaging.
C12_PipelineOrder == [](C12_State) /\ [][C12_Step]_vars

\* a run with a fetch and two conversions whose validation failed and that
\* was packaged all the same
C12_Witness ==
    /\ pc = "done"
    /\ Begun("fetch")
    /\ Len(processed) >= 2
    /\ ~valid
    /\ packaged
    /\ steps = <<"setup", "fetch", "convert", "normalize", "generate", "validate",
                 "package">>

(***************************************************************************)
(* Failure of a step.                                                      *)
(***************************************************************************)
C13_State ==
    /\ exit_code \in {-1, 0, 1}
    /\ ErrorLogged <=> pc = "failed"
    /\ pc = "failed" <=> exit_code = 1
    /\ exit_code = 0 => pc = "done" /\ packaged /\ Begun("package")
    /\ pc = "done" => exit_code = 0

C13_Step ==
    /\ pc \notin {"failed", "done"}
    /\ ErrorLogged' =>
          /\ pc \in {"setup", "mkdirs", "fetch", "write", "normalize", "generate",
                      "validate", "package", "cleanup"}
          /\ exit_code' = 1
          /\ pc' = "failed"
    /\ steps' # steps =>
          \E step \in {PipelineOrder[i] : i \in 1..Len(PipelineOrder)} :
              /\ ~Begun(step)
              /\ steps' = Append(steps, step)

\* C13: a step that raises is logged and ends the run with status 1: nothing
\* runs after it, no step is begun a second time, and the status is 0 only
\* when packaging has completed.
C13_AllOrNothing == [](C13_State) /\ [][C13_Step]_vars

\* normalization raised after two conversions
C13_Witness ==
    /\ pc = "failed"
    /\ exit_code = 1
    /\ ErrorLogged
    /\ Len(processed) >= 2
    /\ steps[Len(steps)] = "normalize"
    /\ ~skill_exists
    /\ ~packaged

(***************************************************************************)
(* generate_skill_structure.                                               *)
(***************************************************************************)
\* the last three characters of p are '.md'
IsMd(p) ==
    /\ Len(p) >= 3
    /\ p[Len(p) - 2] = "."
    /\ p[Len(p) - 1] = "m"
    /\ p[Len(p)] = "d"

\* a call of generate_skill_structure has returned
Called == pc \in {"again", "returned"}

C14_State ==
    Called /\ temp_exists =>
        /\ skill_exists
        /\ skill_md # "absent"
        /\ \A r \in DOMAIN markdown :
              IsMd(r) => r \in DOMAIN skill_docs /\ skill_docs[r] = markdown[r]

C14_Step ==
    /\ temp_exists' = temp_exists
    /\ markdown' = markdown
    /\ \A d \in DOMAIN skill_docs : d \in DOMAIN skill_docs'
    /\ \A d \in DOMAIN skill_docs' :
          \/ d \in DOMAIN skill_docs /\ skill_docs'[d] = skill_docs[d]
          \/ d \in DOMAIN markdown /\ IsMd(d) /\ skill_docs'[d] = markdown[d]

\* C14: after a call with an existing source directory SKILL.md exists and
\* every source file whose name ends in '.md' has a copy at the same relative
\* path under docs; a call adds to docs or changes in it nothing but such
\* copies, and it leaves the source directory as it was.
C14_PreservesTree == [](C14_State) /\ [][C14_Step]_vars

\* a fresh skill directory made from a source with a Markdown file at its
\* root, one in a subdirectory and a file that is no Markdown
C14_Witness ==
    /\ pc = "again"
    /\ DOMAIN markdown = {S_root, S_nested, S_txt}
    /\ DOMAIN skill_docs = {S_root, S_nested}
    /\ skill_docs[S_nested] = file_text(S_nested)
    /\ skill_md = "generated"
    /\ <<"skill_exists", <<>> >> \notin warnings

(***************************************************************************)
(* The temporary directory.                                                *)
(***************************************************************************)
\* what both readings of the skip-fetch frame condition share: no fetch with
\* --skip-fetch; without it fetch_site finds an empty temporary directory
\* and the loop begins with an empty markdown directory
C15_Fetch ==
    /\ skip_fetch => ~Begun("fetch")
    /\ ~skip_fetch /\ pc = "fetch" =>
          /\ Begun("setup")
          /\ crawl = {}
          /\ markdown = NoFiles
    /\ ~skip_fetch /\ Begun("convert") =>
          /\ Begun("fetch")
          /\ md_before = {}
          /\ \A d \in DOMAIN markdown : markdown[d].fetched_at # "previous"

\* the step leaves the temporary directory in place and its download tree
\* as it was
KeepsDownload ==
    /\ temp_exists => temp_exists'
    /\ crawl' = crawl

\* C15 (as stated): with --skip-fetch no step of the run deletes the
\* temporary directory or changes the download tree.
C15_SkipFetchFrame ==
    [](C15_Fetch) /\ [][skip_fetch => KeepsDownload]_vars

\* C15: with --skip-fetch fetch_site is never invoked and no step ahead of
\* the cleanup step deletes the temporary directory or changes the download
\* tree, and the cleanup step does so only with --clean; without
\* --skip-fetch the temporary directory is empty when fetch_site is invoked
\* and no Markdown of an earlier run is there when the conversion begins.
C15_SkipFetchFrameUntilCleanup ==
    [](C15_Fetch) /\ [][skip_fetch /\ ~(pc = "cleanup" /\ clean) => KeepsDownload]_vars

\* a --skip-fetch --clean run over a download and the Markdown of an earlier
\* run, about to clean up
C15_Witness ==
    /\ pc = "cleanup"
    /\ skip_fetch
    /\ clean
    /\ temp_exists
    /\ Cardinality(crawl) >= 2
    /\ md_before # {}
    /\ Len(processed) >= 2

\* what both readings of the cleanup rule share: a run that completes
\* leaves the temporary directory exactly without --clean, and a run that
\* fails after the directory setup leaves it in place
C16_End ==
    /\ pc = "done" => (temp_exists <=> ~clean)
    /\ pc = "failed" /\ Len(steps) >= 2 => temp_exists

Removed == temp_exists /\ ~temp_exists'

\* C16 (as stated): the temporary directory is removed only with --clean and
\* only once package_skill has returned.
C16_CleanupOnlyOnSuccess ==
    [](C16_End) /\ [][Removed => clean /\ packaged]_vars

\* C16: the temporary directory is removed only by the cleanup step, with
\* --clean and once package_skill has returned, or by the directory setup
\* of a run without --skip-fetch, ahead of the fetch.
C16_RemovalOnlyAtResetOrCleanup ==
    /\ [](C16_End)
    /\ [][Removed =>
            \/ pc = "cleanup" /\ clean /\ packaged
            \/ pc = "setup" /\ ~skip_fetch /\ ~Begun("fetch")]_vars

\* a --clean run that fetched, converted and packaged has removed the
\* temporary directory
C16_Witness ==
    /\ pc = "done"
    /\ clean
    /\ ~skip_fetch
    /\ packaged
    /\ ~temp_exists
    /\ Len(processed) >= 1
    /\ steps[Len(steps)] = "cleanup"

\* the skill directory as a whole
skill_dir == <<skill_exists, skill_md, scripts, skill_docs>>

\* both scripts hold the text of their templates
Installed(scr) == scr.search_docs = "template" /\ scr.readme = "template"

\* what both readings of the manifest rule share: an existing SKILL.md
\* keeps its content, an existing skill directory is reported, and the
\* second of two calls leaves the skill directory as the first left it
C17_Manifest ==
    /\ skill_md # "absent" => skill_md' = skill_md
    /\ skill_md = "absent" => skill_md' = "generated"
    /\ skill_exists => <<"skill_exists", <<>> >> \in warnings'
    /\ pc = "again" => skill_dir' = skill_dir

\* C17 (as stated): an existing SKILL.md is never overwritten, both scripts
\* are rewritten on every call, and a second call changes nothing.
C17_ScriptsAlwaysRewritten ==
    [][C17_Manifest /\ Installed(scripts')]_vars

\* C17: an existing SKILL.md is never overwritten and a second call changes
\* nothing; both scripts are rewritten on every call that can read the
\* templates, and a call that cannot logs a warning, returns, and leaves
\* each script as it was, empty or rewritten, but not both rewritten.
C17_ManifestKept ==
    [][/\ C17_Manifest
       /\ templates = "ok" => Installed(scripts')
       /\ templates # "ok" =>
             /\ <<"templates", <<>> >> \in warnings'
             /\ ~Installed(scripts')
             /\ scripts'.search_docs \in {scripts.search_docs, "empty", "template"}
             /\ scripts'.readme \in {scripts.readme, "empty"}]_vars

\* the second call on a skill directory with a SKILL.md of the user's has
\* returned: the manifest is the user's, the scripts are the templates'
C17_Witness ==
    /\ pc = "returned"
    /\ skill_md = "custom"
    /\ Installed(scripts)
    /\ <<"skill_exists", <<>> >> \in warnings
    /\ S_old \in DOMAIN skill_docs
    /\ S_nested \in DOMAIN skill_docs

====
